---- MODULE Spec2Model ----
(***************************************************************************)
(* PDFToolKit: the input/validation/result protocol shared by compress,    *)
(* merge, encrypt, decrypt, to-excel and to-word.                          *)
(*                                                                         *)
(* One call is one atomic step.  Every call is computed by a pure          *)
(* "outcome" operator that follows the handler line by line and returns    *)
(* the value handed back to the caller together with everything the call   *)
(* did on the way: the filesystem afterwards, the filesystem operations,   *)
(* the delegate-engine invocations and the cursor of every stream input.   *)
(***************************************************************************)
EXTENDS Integers, Sequences, FiniteSets, TLC

VARIABLES fs, fs0, call, result, engine, fsops, sniffs, cursor, elevel, prev,
          exitcode, visited

vars == <<fs, fs0, call, result, engine, fsops, sniffs, cursor, elevel, prev,
          exitcode, visited>>

----------------------------------------------------------------------------
(* Bounds of the exploration.                                              *)

\* longest input list handed to merge
MaxInputs == 3

----------------------------------------------------------------------------
(* File contents.  A content is what a path, a byte buffer or a stream     *)
(* holds: kind is what MIME sniffing of its first bytes sees, ok says      *)
(* whether the PDF engine can parse it, key is the password it is          *)
(* encrypted with, rows is the sheet of a spreadsheet.                     *)

MAX_FILE_SIZE == 30 * 1024 * 1024

NoKey == "<no key>"

Absent == [kind |-> "absent", pages |-> <<>>, key |-> NoKey, size |-> 0,
           ok |-> FALSE, rows |-> <<>>]

\* a file opened for writing and never completed
Trunc == [kind |-> "empty", pages |-> <<>>, key |-> NoKey, size |-> 0,
          ok |-> FALSE, rows |-> <<>>]

Pdf(pages, key, size, ok) ==
    [kind |-> "pdf", pages |-> pages, key |-> key, size |-> size, ok |-> ok,
     rows |-> <<>>]

\* what PdfWriter.write produces for a page list and an encryption key
Written(pages, key) == Pdf(pages, key, 2048, TRUE)

Xlsx(rows) == [kind |-> "xlsx", pages |-> <<>>, key |-> NoKey, size |-> 4096,
               ok |-> FALSE, rows |-> rows]

Docx(pages) == [kind |-> "docx", pages |-> pages, key |-> NoKey, size |-> 4096,
                ok |-> FALSE, rows |-> <<>>]

DocA    == Pdf(<<1, 2>>, NoKey, 3000, TRUE)
DocB    == Pdf(<<3>>, NoKey, 1500, TRUE)
DocC    == Pdf(<<4, 5>>, NoKey, 2500, TRUE)
DocMax  == Pdf(<<6>>, NoKey, MAX_FILE_SIZE, TRUE)
DocBig  == Pdf(<<7>>, NoKey, MAX_FILE_SIZE + 1, TRUE)
DocEnc  == Pdf(<<8, 9>>, "pw1", 3100, TRUE)
\* five pages, with and without tables, not in the order of their numbers
DocLong == Pdf(<<2, 3, 1, 6, 4>>, NoKey, 5000, TRUE)
\* PDF magic bytes, body the engine cannot parse
DocBad  == Pdf(<<>>, NoKey, 1200, FALSE)
\* plain text under a .pdf name
DocText == [kind |-> "text", pages |-> <<>>, key |-> NoKey, size |-> 12,
            ok |-> FALSE, rows |-> <<>>]
\* plain text under a .pdf name, larger than the ceiling
DocBigText == [kind |-> "text", pages |-> <<>>, key |-> NoKey,
               size |-> MAX_FILE_SIZE + 1, ok |-> FALSE, rows |-> <<>>]
\* what an earlier run left at the destination
DocOld  == Pdf(<<10>>, NoKey, 900, TRUE)

Contents == {DocA, DocB, DocMax, DocBig, DocEnc, DocBad, DocText, DocBigText,
             DocLong}

----------------------------------------------------------------------------
(* Paths.                                                                  *)

NoPath    == "<None>"
EmptyPath == ""
OutPath   == "out.pdf"
TmpPdf    == "tmp0.pdf"
TmpDocx   == "tmp1.docx"

SourcePath(c) ==
    CASE c = DocA    -> "a.pdf"
      [] c = DocB    -> "b.pdf"
      [] c = DocC    -> "c.pdf"
      [] c = DocMax  -> "max.pdf"
      [] c = DocBig  -> "big.pdf"
      [] c = DocEnc  -> "enc.pdf"
      [] c = DocBad  -> "bad.pdf"
      [] c = DocText -> "notes.pdf"
      [] c = DocBigText -> "bignotes.pdf"
      [] c = DocLong -> "long.pdf"

Paths == {SourcePath(c) : c \in Contents \cup {DocC}}
            \cup {"missing.pdf", OutPath, TmpPdf, TmpDocx}

\* Python truthiness of output_path ("if output_path:")
Truthy(p) == p \notin {NoPath, EmptyPath}

----------------------------------------------------------------------------
(* Inputs: Union[str, BinaryIO, bytes], or anything else.                  *)

PathSrc(p)   == [variant |-> "path", path |-> p, data |-> Absent,
                 hasSize |-> FALSE, pos |-> 0]
BytesSrc(c)  == [variant |-> "bytes", path |-> NoPath, data |-> c,
                 hasSize |-> FALSE, pos |-> 0]
StreamSrc(c, hs, p) == [variant |-> "stream", path |-> NoPath, data |-> c,
                        hasSize |-> hs, pos |-> p]
OtherSrc     == [variant |-> "other", path |-> NoPath, data |-> Absent,
                 hasSize |-> FALSE, pos |-> 0]

\* cursor positions a caller's stream may be at when it is handed over
StartPositions == {0, 7}

Sources ==
    {PathSrc(SourcePath(c)) : c \in Contents}
      \cup {PathSrc("missing.pdf"), PathSrc(OutPath), OtherSrc}
      \cup {BytesSrc(c) : c \in Contents}
      \cup {StreamSrc(c, FALSE, p) : c \in Contents, p \in StartPositions}
      \cup {StreamSrc(c, TRUE, p) : c \in {DocA, DocMax, DocBig, DocBigText},
                                   p \in StartPositions}

\* the bytes an input holds
DataOf(file, fsv) == IF file.variant = "path" THEN fsv[file.path] ELSE file.data

\* where the engine leaves a stream it stopped reading part-way
EngineStop(c) == c.size

----------------------------------------------------------------------------
(* Messages.  pre/idx are the wrapper an operation puts around an inner    *)
(* message (text, arg).                                                    *)

Msg(text, arg) == [pre |-> "", idx |-> 0, text |-> text, arg |-> arg]
Wrap(pre, idx, m) == [pre |-> pre, idx |-> idx, text |-> m.text, arg |-> m.arg]
NoMsg == Msg("", "")

\* str(e) of the exceptions the collaborators raise
ExcRead     == Msg("OSError: cannot read", "")
ExcParse    == Msg("PdfReadError: invalid pdf", "")
ExcLocked   == Msg("File has not been decrypted", "")
ExcOpen     == Msg("OSError: cannot open for writing", "")
ExcWrite    == Msg("OSError: write failed", "")
ExcAlgo     == Msg("ValueError: unsupported algorithm", "")
ExcRange    == Msg("range() arg 3 must not be zero", "")
ExcTemp     == Msg("OSError: cannot create temporary file", "")
ExcConvert  == Msg("ConversionException", "")

----------------------------------------------------------------------------
(* Results: Union[bytes, str, Tuple[bool, str]], or an exception that      *)
(* leaves the call.                                                        *)

NoResult      == [kind |-> "none", path |-> NoPath, data |-> Absent, msg |-> NoMsg]
PathResult(p) == [kind |-> "path", path |-> p, data |-> Absent, msg |-> NoMsg]
BytesResult(c) == [kind |-> "bytes", path |-> NoPath, data |-> c, msg |-> NoMsg]
Failure(m)    == [kind |-> "failure", path |-> NoPath, data |-> Absent, msg |-> m]
Raised(m)     == [kind |-> "raise", path |-> NoPath, data |-> Absent, msg |-> m]
\* validate_pdf's (True, None)
ValidResult   == [kind |-> "valid", path |-> NoPath, data |-> Absent, msg |-> NoMsg]

----------------------------------------------------------------------------
(* validators.py                                                           *)

\* the name is trusted: nothing is sniffed
validate_pdf_mime_TrustName(file_content) == TRUE

validate_pdf_mime(file_content) == file_content.kind = "pdf"

\* the ceiling compared one byte too high
validate_pdf_size_OffByOne(file_size, max_size) == file_size <= max_size + 1

validate_pdf_size(file_size, max_size) == file_size <= max_size

SizeMsg == Msg("File size exceeds the maximum limit of ", "30.00 MB")

\* one validation: the verdict, and what it did to get there
VOut(ok, m, ops, sniffed, pos) ==
    [ok |-> ok, msg |-> m, fsops |-> ops, sniffed |-> sniffed, pos |-> pos]

\* the content is sniffed before the size is looked at
validate_pdf_SniffFirst(file, fsv, fault) ==
    LET c == IF file.variant = "path" THEN fsv[file.path] ELSE file.data
        p == file.path
        ops == IF file.variant = "path"
               THEN {<<"exists", p>>, <<"getsize", p>>, <<"open_r", p>>} ELSE {}
        sized == file.variant \in {"path", "bytes"} \/ file.hasSize
    IN  IF file.variant = "other"
        THEN VOut(FALSE, Msg("Unsupported file type", ""), {}, FALSE, 0)
        ELSE IF c.kind = "absent"
        THEN VOut(FALSE, Msg("File not found: ", p), {<<"exists", p>>}, FALSE, 0)
        ELSE IF ~validate_pdf_mime(c)
        THEN VOut(FALSE, Msg("File is not a valid PDF", ""), ops, TRUE, file.pos)
        ELSE IF sized /\ ~validate_pdf_size(c.size, MAX_FILE_SIZE)
        THEN VOut(FALSE, SizeMsg, ops, TRUE, file.pos)
        ELSE VOut(TRUE, NoMsg, ops, TRUE, file.pos)

validate_pdf(file, fsv, fault) ==
    CASE file.variant = "path" ->
           LET p == file.path
               c == fsv[p]
           IN  IF c.kind = "absent"
               THEN VOut(FALSE, Msg("File not found: ", p), {<<"exists", p>>}, FALSE, 0)
               ELSE IF ~validate_pdf_size(c.size, MAX_FILE_SIZE)
               THEN VOut(FALSE, SizeMsg, {<<"exists", p>>, <<"getsize", p>>}, FALSE, 0)
               ELSE IF fault = "vread"
               THEN VOut(FALSE, Wrap("Error validating PDF: ", 0, ExcRead),
                         {<<"exists", p>>, <<"getsize", p>>, <<"open_r", p>>}, FALSE, 0)
               ELSE IF ~validate_pdf_mime(c)
               THEN VOut(FALSE, Msg("File is not a valid PDF", ""),
                         {<<"exists", p>>, <<"getsize", p>>, <<"open_r", p>>}, TRUE, 0)
               ELSE VOut(TRUE, NoMsg,
                         {<<"exists", p>>, <<"getsize", p>>, <<"open_r", p>>}, TRUE, 0)
      [] file.variant = "stream" ->
           LET c == file.data
           IN  IF file.hasSize /\ ~validate_pdf_size(c.size, MAX_FILE_SIZE)
               THEN VOut(FALSE, SizeMsg, {}, FALSE, file.pos)
               \* tell(); seek(0); read(1024) raises: the seek back is skipped
               ELSE IF fault = "vread"
               THEN VOut(FALSE, Wrap("Error validating PDF: ", 0, ExcRead), {}, FALSE, 0)
               \* seek(current_pos) has run before the MIME check
               ELSE IF ~validate_pdf_mime(c)
               THEN VOut(FALSE, Msg("File is not a valid PDF", ""), {}, TRUE, file.pos)
               ELSE VOut(TRUE, NoMsg, {}, TRUE, file.pos)
      [] file.variant = "bytes" ->
           LET c == file.data
           IN  IF ~validate_pdf_size(c.size, MAX_FILE_SIZE)
               THEN VOut(FALSE, SizeMsg, {}, FALSE, 0)
               ELSE IF ~validate_pdf_mime(c)
               THEN VOut(FALSE, Msg("Content is not a valid PDF", ""), {}, TRUE, 0)
               ELSE VOut(TRUE, NoMsg, {}, TRUE, 0)
      [] OTHER -> VOut(FALSE, Msg("Unsupported file type", ""), {}, FALSE, 0)

----------------------------------------------------------------------------
(* What one call hands back and what it did.                               *)

Out(res, fsv, eng, ops, sn, cur, lvl) ==
    [res |-> res, fs |-> fsv, engine |-> eng, fsops |-> ops, sniffs |-> sn,
     cursor |-> cur, level |-> lvl]

\* the handler lets the exception through
Caught_Reraise(prefix, exc) == Raised(exc)

\* "except Exception as e: return False, f'<prefix>{str(e)}'"
Caught(prefix, exc) == Failure(Wrap(prefix, 0, exc))

\* the input indexes whose content was MIME-sniffed
Sniffed(v, i) == IF v.sniffed THEN {i} ELSE {}

(* The reader branch every operation repeats: PdfReader(path),             *)
(* tell/seek(0)/PdfReader(stream)/seek(current_pos), or                    *)
(* PdfReader(BytesIO(bytes)).  fn is the engine entry point, i the input's *)
(* index.                                                                  *)
ROut(status, exc, doc, pos, eng, ops) ==
    [status |-> status, exc |-> exc, doc |-> doc, pos |-> pos, engine |-> eng,
     fsops |-> ops]

OpenReader(file, fsv, fault, fn, i) ==
    CASE file.variant = "path" ->
           LET c == fsv[file.path]
               ops == {<<"open_r", file.path>>}
           IN  IF fault = "read" THEN ROut("raised", ExcRead, c, 0, {<<fn, i>>}, ops)
               ELSE IF ~c.ok THEN ROut("raised", ExcParse, c, 0, {<<fn, i>>}, ops)
               ELSE ROut("ok", NoMsg, c, 0, {<<fn, i>>}, ops)
      [] file.variant = "stream" ->
           LET c == file.data
           IN  \* the exception leaves before input_pdf.seek(current_pos)
               IF fault = "read" THEN ROut("raised", ExcRead, c, 0, {<<fn, i>>}, {})
               ELSE IF ~c.ok
               THEN ROut("raised", ExcParse, c, EngineStop(c), {<<fn, i>>}, {})
               ELSE ROut("ok", NoMsg, c, file.pos, {<<fn, i>>}, {})
      [] file.variant = "bytes" ->
           LET c == file.data
           IN  IF ~c.ok THEN ROut("raised", ExcParse, c, 0, {<<fn, i>>}, {})
               ELSE ROut("ok", NoMsg, c, 0, {<<fn, i>>}, {})
      [] OTHER -> ROut("unsupported", NoMsg, Absent, 0, {}, {})

\* reader.pages: the engine refuses the pages of a document it has not decrypted
PagesLocked(doc, unlocked) == doc.key # NoKey /\ ~unlocked

\* the buffer is returned even when the file was written
WriteOut_AlwaysBytes(doc, output_path, fsv, fault) ==
    IF fault = "open" /\ Truthy(output_path)
    THEN [raised |-> TRUE, exc |-> ExcOpen, res |-> NoResult, fs |-> fsv,
          engine |-> {}, fsops |-> {}]
    ELSE IF fault = "write"
    THEN [raised |-> TRUE, exc |-> ExcWrite, res |-> NoResult, fs |-> fsv,
          engine |-> {<<"write", 0>>}, fsops |-> {}]
    ELSE [raised |-> FALSE, exc |-> NoMsg, res |-> BytesResult(doc),
          fs |-> IF Truthy(output_path) THEN [fsv EXCEPT ![output_path] = doc]
                 ELSE fsv,
          engine |-> {<<"write", 0>>},
          fsops |-> IF Truthy(output_path) THEN {<<"open_w", output_path>>}
                    ELSE {}]

(* The output branch every PDF operation repeats:                          *)
(*   if output_path: with open(output_path, 'wb') as f: writer.write(f)    *)
(*   else: writer.write(BytesIO()); return getvalue()                      *)
WOut(raised, exc, res, fsv, eng, ops) ==
    [raised |-> raised, exc |-> exc, res |-> res, fs |-> fsv, engine |-> eng,
     fsops |-> ops]

WriteOut(doc, output_path, fsv, fault) ==
    IF Truthy(output_path)
    THEN IF fault = "open"
         THEN WOut(TRUE, ExcOpen, NoResult, fsv, {}, {})
         \* open(.., 'wb') has created or truncated the file when write() raises
         ELSE IF fault = "write"
         THEN WOut(TRUE, ExcWrite, NoResult, [fsv EXCEPT ![output_path] = Trunc],
                   {<<"write", 0>>}, {<<"open_w", output_path>>})
         ELSE WOut(FALSE, NoMsg, PathResult(output_path),
                   [fsv EXCEPT ![output_path] = doc],
                   {<<"write", 0>>}, {<<"open_w", output_path>>})
    ELSE IF fault = "write"
         THEN WOut(TRUE, ExcWrite, NoResult, fsv, {<<"write", 0>>}, {})
         ELSE WOut(FALSE, NoMsg, BytesResult(doc), fsv, {<<"write", 0>>}, {})

----------------------------------------------------------------------------
(* compressor.py                                                           *)

Min(a, b) == IF a < b THEN a ELSE b
Max(a, b) == IF a > b THEN a ELSE b

\* compression_level = min(max(1, compression_level), 10)
ClampLevel(compression_level) == Min(Max(1, compression_level), 10)

\* level 5 is doubled as well
CompressLevel_OffByOne(compression_level) ==
    LET l == ClampLevel(compression_level)
    IN  IF l <= 5 THEN l * 2 ELSE 9

\* compress_level = compression_level * 2 if compression_level < 5 else 9
CompressLevel(compression_level) ==
    LET l == ClampLevel(compression_level)
    IN  IF l < 5 THEN l * 2 ELSE 9

compress(input_pdf, output_path, compression_level, fsv, fault) ==
    LET prefix == "An error occurred during compression: "
        v == validate_pdf(input_pdf, fsv, fault)
        sn == Sniffed(v, 1)
    IN  IF ~v.ok
        THEN Out(Failure(v.msg), fsv, {}, v.fsops, sn, <<v.pos>>, 0)
        ELSE
        LET lvl == CompressLevel(compression_level)
            r == OpenReader(input_pdf, fsv, fault, "PdfReader", 1)
            ops == v.fsops \cup r.fsops
        IN  IF r.status = "unsupported"
            THEN Out(Failure(Msg("Unsupported input type", "")), fsv, {}, ops, sn,
                     <<r.pos>>, lvl)
            ELSE IF r.status = "raised"
            THEN Out(Caught(prefix, r.exc), fsv, r.engine, ops, sn, <<r.pos>>, lvl)
            ELSE IF PagesLocked(r.doc, FALSE)
            THEN Out(Caught(prefix, ExcLocked), fsv, r.engine \cup {<<"pages", 1>>},
                     ops, sn, <<r.pos>>, lvl)
            ELSE
            LET eng == r.engine \cup {<<"pages", 1>>, <<"add_page", 1>>,
                                      <<"compress_content_streams", lvl>>,
                                      <<"compress_identical_objects", 0>>}
                w == WriteOut(Written(r.doc.pages, NoKey), output_path, fsv, fault)
            IN  IF w.raised
                THEN Out(Caught(prefix, w.exc), w.fs, eng \cup w.engine,
                         ops \cup w.fsops, sn, <<r.pos>>, lvl)
                ELSE Out(w.res, w.fs, eng \cup w.engine, ops \cup w.fsops, sn,
                         <<r.pos>>, lvl)

----------------------------------------------------------------------------
(* encryption.py                                                           *)

NoPwd == "<None>"
Passwords == {NoPwd, "", "pw1", "pw2"}

\* only an absent password counts as missing
HasPassword_NoneOnly(password) == password # NoPwd

\* Python truthiness of password ("if not password:")
HasPassword(password) == password \notin {NoPwd, ""}

DefaultAlgorithm == "AES-256-R5"
Algorithms == {DefaultAlgorithm, "ROT13"}

encrypt(input_pdf, password, output_path, algorithm, fsv, fault) ==
    LET prefix == "An error occurred during encryption: "
        v == validate_pdf(input_pdf, fsv, fault)
        sn == Sniffed(v, 1)
    IN  IF ~v.ok
        THEN Out(Failure(v.msg), fsv, {}, v.fsops, sn, <<v.pos>>, 0)
        ELSE IF ~HasPassword(password)
        THEN Out(Failure(Msg("Password is required for encryption", "")), fsv, {},
                 v.fsops, sn, <<v.pos>>, 0)
        ELSE
        LET r == OpenReader(input_pdf, fsv, fault, "PdfReader", 1)
            ops == v.fsops \cup r.fsops
        IN  IF r.status = "unsupported"
            THEN Out(Failure(Msg("Unsupported input type", "")), fsv, {}, ops, sn,
                     <<r.pos>>, 0)
            ELSE IF r.status = "raised"
            THEN Out(Caught(prefix, r.exc), fsv, r.engine, ops, sn, <<r.pos>>, 0)
            ELSE IF PagesLocked(r.doc, FALSE)
            THEN Out(Caught(prefix, ExcLocked), fsv, r.engine \cup {<<"pages", 1>>},
                     ops, sn, <<r.pos>>, 0)
            ELSE
            LET eng == r.engine \cup {<<"pages", 1>>, <<"add_page", 1>>,
                                      <<"encrypt", 1>>}
            IN  IF algorithm # DefaultAlgorithm
                THEN Out(Caught(prefix, ExcAlgo), fsv, eng, ops, sn, <<r.pos>>, 0)
                ELSE
                LET w == WriteOut(Written(r.doc.pages, password), output_path, fsv,
                                  fault)
                IN  IF w.raised
                    THEN Out(Caught(prefix, w.exc), w.fs, eng \cup w.engine,
                             ops \cup w.fsops, sn, <<r.pos>>, 0)
                    ELSE Out(w.res, w.fs, eng \cup w.engine, ops \cup w.fsops, sn,
                             <<r.pos>>, 0)

\* the password never reaches the engine
EngineDecrypt_Skipped(doc, password, fault) == "not_decrypted"

(* reader.decrypt(password).  The engine raises when it cannot run the     *)
(* document's security handler (fault "decrypt"); a password that does not *)
(* match is reported through the return value, which line 141 discards.    *)
EngineDecrypt(doc, password, fault) ==
    IF fault = "decrypt" THEN "raised"
    ELSE IF doc.key = password THEN "unlocked"
    ELSE "not_decrypted"

\* the encryption check is passed by every document
IsEncrypted_Always(doc) == TRUE

\* reader.is_encrypted
IsEncrypted(doc) == doc.key # NoKey

decrypt(input_pdf, password, output_path, fsv, fault) ==
    LET prefix == "An error occurred during decryption: "
        v == validate_pdf(input_pdf, fsv, fault)
        sn == Sniffed(v, 1)
    IN  IF ~v.ok
        THEN Out(Failure(v.msg), fsv, {}, v.fsops, sn, <<v.pos>>, 0)
        ELSE IF ~HasPassword(password)
        THEN Out(Failure(Msg("Password is required for decryption", "")), fsv, {},
                 v.fsops, sn, <<v.pos>>, 0)
        ELSE
        LET r == OpenReader(input_pdf, fsv, fault, "PdfReader", 1)
            ops == v.fsops \cup r.fsops
        IN  IF r.status = "unsupported"
            THEN Out(Failure(Msg("Unsupported input type", "")), fsv, {}, ops, sn,
                     <<r.pos>>, 0)
            ELSE IF r.status = "raised"
            THEN Out(Caught(prefix, r.exc), fsv, r.engine, ops, sn, <<r.pos>>, 0)
            ELSE IF ~IsEncrypted(r.doc)
            THEN Out(Failure(Msg("The PDF is not encrypted", "")), fsv,
                     r.engine \cup {<<"is_encrypted", 1>>}, ops, sn, <<r.pos>>, 0)
            ELSE
            LET d == EngineDecrypt(r.doc, password, fault)
                eng == r.engine \cup {<<"is_encrypted", 1>>, <<"decrypt", 1>>}
            IN  IF d = "raised"
                THEN Out(Failure(Msg("Incorrect password or failed to decrypt the PDF",
                                     "")), fsv, eng, ops, sn, <<r.pos>>, 0)
                ELSE IF PagesLocked(r.doc, d = "unlocked")
                THEN Out(Caught(prefix, ExcLocked), fsv, eng \cup {<<"pages", 1>>},
                         ops, sn, <<r.pos>>, 0)
                ELSE
                LET eng2 == eng \cup {<<"pages", 1>>, <<"add_page", 1>>}
                    w == WriteOut(Written(r.doc.pages, NoKey), output_path, fsv, fault)
                IN  IF w.raised
                    THEN Out(Caught(prefix, w.exc), w.fs, eng2 \cup w.engine,
                             ops \cup w.fsops, sn, <<r.pos>>, 0)
                    ELSE Out(w.res, w.fs, eng2 \cup w.engine, ops \cup w.fsops, sn,
                             <<r.pos>>, 0)

----------------------------------------------------------------------------
(* merger.py                                                               *)

\* the environment's fault strikes the first input of a list
FaultAt(fault, i) == IF i = 1 THEN fault ELSE "none"

StartCursor(input_pdfs) == [j \in 1..Len(input_pdfs) |-> input_pdfs[j].pos]

\* "for i, pdf in enumerate(input_pdfs): is_valid, error_message = validate_pdf(pdf)"
RECURSIVE ValidateAll(_, _, _, _, _, _, _)
ValidateAll(input_pdfs, fsv, fault, i, ops, sn, cur) ==
    IF i > Len(input_pdfs)
    THEN [ok |-> TRUE, idx |-> 0, msg |-> NoMsg, fsops |-> ops, sniffs |-> sn,
          cursor |-> cur]
    ELSE LET v == validate_pdf(input_pdfs[i], fsv, FaultAt(fault, i))
             cur2 == [cur EXCEPT ![i] = v.pos]
         IN  IF ~v.ok
             THEN [ok |-> FALSE, idx |-> i, msg |-> v.msg,
                   fsops |-> ops \cup v.fsops, sniffs |-> sn \cup Sniffed(v, i),
                   cursor |-> cur2]
             ELSE ValidateAll(input_pdfs, fsv, fault, i + 1, ops \cup v.fsops,
                              sn \cup Sniffed(v, i), cur2)

\* merger.merge(0, pdf): each input goes in front of what is there
EngineAppend_Front(pages, more) == more \o pages

\* merger.append(pdf): the pages of pdf after the pages appended so far
EngineAppend(pages, more) == pages \o more

(* "for i, pdf in enumerate(input_pdfs): try: merger.append(..)".  For a   *)
(* stream the append sits between seek(0) and seek(current_pos), so an     *)
(* exception inside it skips the seek back.                                *)
RECURSIVE AppendAll(_, _, _, _, _, _, _, _)
AppendAll(input_pdfs, fsv, fault, i, pages, eng, ops, cur) ==
    IF i > Len(input_pdfs)
    THEN [status |-> "ok", idx |-> 0, exc |-> NoMsg, pages |-> pages,
          engine |-> eng, fsops |-> ops, cursor |-> cur]
    ELSE LET pdf == input_pdfs[i]
             r == OpenReader(pdf, fsv, FaultAt(fault, i), "append", i)
             locked == r.status = "ok" /\ PagesLocked(r.doc, FALSE)
             stop == IF pdf.variant = "stream" THEN EngineStop(r.doc) ELSE r.pos
         IN  IF r.status = "unsupported"
             THEN [status |-> "unsupported", idx |-> i, exc |-> NoMsg,
                   pages |-> pages, engine |-> eng, fsops |-> ops, cursor |-> cur]
             ELSE IF r.status = "raised" \/ locked
             THEN [status |-> "raised", idx |-> i,
                   exc |-> IF locked THEN ExcLocked ELSE r.exc, pages |-> pages,
                   engine |-> eng \cup r.engine, fsops |-> ops \cup r.fsops,
                   cursor |-> [cur EXCEPT ![i] = IF locked THEN stop ELSE r.pos]]
             ELSE AppendAll(input_pdfs, fsv, fault, i + 1,
                            EngineAppend(pages, r.doc.pages), eng \cup r.engine,
                            ops \cup r.fsops, [cur EXCEPT ![i] = r.pos])

\* the count check lets a single input through
TooFew_OffByOne(input_pdfs) == Len(input_pdfs) < 1

\* "if len(input_pdfs) < 2"
TooFew(input_pdfs) == Len(input_pdfs) < 2

\* each input is appended as soon as it has passed validation
merge_Interleaved(input_pdfs, output_path, fsv, fault) ==
    LET prefix == "An error occurred during PDF merging: "
        cur0 == StartCursor(input_pdfs)
    IN  IF Len(input_pdfs) = 0
        THEN Out(Failure(Msg("No PDF files provided for merging", "")), fsv, {}, {},
                 {}, cur0, 0)
        ELSE IF TooFew(input_pdfs)
        THEN Out(Failure(Msg("At least two PDF files are required for merging", "")),
                 fsv, {}, {}, {}, cur0, 0)
        ELSE
        LET v == ValidateAll(input_pdfs, fsv, fault, 1, {}, {}, cur0)
            upto == IF v.ok THEN input_pdfs ELSE SubSeq(input_pdfs, 1, v.idx - 1)
            a == AppendAll(upto, fsv, fault, 1, <<>>, {}, v.fsops, v.cursor)
        IN  IF a.status = "unsupported"
            THEN Out(Failure(Wrap("Unsupported input type for PDF #", a.idx, NoMsg)),
                     fsv, a.engine, a.fsops, v.sniffs, a.cursor, 0)
            ELSE IF a.status = "raised"
            THEN Out(Failure(Wrap("Error adding PDF #", a.idx, a.exc)), fsv,
                     a.engine, a.fsops, v.sniffs, a.cursor, 0)
            ELSE IF ~v.ok
            THEN Out(Failure(Wrap("Validation failed for PDF #", v.idx, v.msg)), fsv,
                     a.engine, a.fsops, v.sniffs, a.cursor, 0)
            ELSE
            LET w == WriteOut(Written(a.pages, NoKey), output_path, fsv, fault)
            IN  IF w.raised
                THEN Out(Caught(prefix, w.exc), w.fs, a.engine \cup w.engine,
                         a.fsops \cup w.fsops, v.sniffs, a.cursor, 0)
                ELSE Out(w.res, w.fs, a.engine \cup w.engine,
                         a.fsops \cup w.fsops, v.sniffs, a.cursor, 0)

merge(input_pdfs, output_path, fsv, fault) ==
    LET prefix == "An error occurred during PDF merging: "
        cur0 == StartCursor(input_pdfs)
    IN  IF Len(input_pdfs) = 0
        THEN Out(Failure(Msg("No PDF files provided for merging", "")), fsv, {}, {},
                 {}, cur0, 0)
        ELSE IF TooFew(input_pdfs)
        THEN Out(Failure(Msg("At least two PDF files are required for merging", "")),
                 fsv, {}, {}, {}, cur0, 0)
        ELSE
        LET v == ValidateAll(input_pdfs, fsv, fault, 1, {}, {}, cur0)
        IN  IF ~v.ok
            THEN Out(Failure(Wrap("Validation failed for PDF #", v.idx, v.msg)), fsv,
                     {}, v.fsops, v.sniffs, v.cursor, 0)
            ELSE
            LET a == AppendAll(input_pdfs, fsv, fault, 1, <<>>, {}, v.fsops, v.cursor)
            IN  IF a.status = "unsupported"
                THEN Out(Failure(Wrap("Unsupported input type for PDF #", a.idx, NoMsg)),
                         fsv, a.engine, a.fsops, v.sniffs, a.cursor, 0)
                ELSE IF a.status = "raised"
                THEN Out(Failure(Wrap("Error adding PDF #", a.idx, a.exc)), fsv,
                         a.engine, a.fsops, v.sniffs, a.cursor, 0)
                ELSE
                LET w == WriteOut(Written(a.pages, NoKey), output_path, fsv, fault)
                IN  IF w.raised
                    THEN Out(Caught(prefix, w.exc), w.fs, a.engine \cup w.engine,
                             a.fsops \cup w.fsops, v.sniffs, a.cursor, 0)
                    ELSE Out(w.res, w.fs, a.engine \cup w.engine,
                             a.fsops \cup w.fsops, v.sniffs, a.cursor, 0)

----------------------------------------------------------------------------
(* converter.py: PDFToExcelConverter                                       *)

(* page.extract_tables(): the tables the extraction engine detects on a    *)
(* page, in detection order.  A table is its rows, a row is a number.      *)
PageTables(page) ==
    CASE page = 1 -> << <<11, 12, 13>>, <<14>> >>
      [] page = 2 -> << <<21, 22>> >>
      [] page = 4 -> << <<41>> >>
      [] page = 6 -> << <<61, 62>> >>
      [] OTHER    -> << >>

NoHeader == 0

\* the first row is taken as the header of every table
Frame_AlwaysHeader(table) ==
    [k \in 1..(Len(table) - 1) |-> [header |-> table[1], row |-> table[k + 1]]]

\* pd.DataFrame(data, columns=header) / pd.DataFrame(table), row by row
Frame(table) ==
    IF Len(table) > 1
    THEN [k \in 1..(Len(table) - 1) |-> [header |-> table[1], row |-> table[k + 1]]]
    ELSE [k \in 1..Len(table) |-> [header |-> NoHeader, row |-> table[k]]]

\* "for table in page_tables: ... tables_list.append(df)"
RECURSIVE PageFrames(_, _, _)
PageFrames(page_tables, k, tables_list) ==
    IF k > Len(page_tables) THEN tables_list
    ELSE PageFrames(page_tables, k + 1, Append(tables_list, Frame(page_tables[k])))

\* "for page in pdf.pages[batch_start:batch_end]"
RECURSIVE BatchFrames(_, _, _, _)
BatchFrames(pages, j, batch_end, tables_list) ==
    IF j > batch_end THEN tables_list
    ELSE BatchFrames(pages, j + 1, batch_end,
                     PageFrames(PageTables(pages[j]), 1, tables_list))

\* a last batch shorter than batch_size is left out
RECURSIVE AllBatches_DropLast(_, _, _, _)
AllBatches_DropLast(pages, batch_size, batch_start, tables_list) ==
    IF batch_start + batch_size > Len(pages) THEN tables_list
    ELSE AllBatches_DropLast(pages, batch_size, batch_start + batch_size,
                             BatchFrames(pages, batch_start + 1,
                                         batch_start + batch_size, tables_list))

\* "for batch_start in range(0, total_pages, batch_size)", batch_size > 0
RECURSIVE AllBatches(_, _, _, _)
AllBatches(pages, batch_size, batch_start, tables_list) ==
    IF batch_start >= Len(pages) THEN tables_list
    ELSE LET batch_end == Min(batch_start + batch_size, Len(pages))
         IN  AllBatches(pages, batch_size, batch_start + batch_size,
                        BatchFrames(pages, batch_start + 1, batch_end, tables_list))

(* The same two loops, seen from the extraction engine: the 1-based       *)
(* positions of the pages page.extract_tables() is called on, in call     *)
(* order.                                                                  *)
RECURSIVE AllVisits(_, _, _, _)
AllVisits(pages, batch_size, batch_start, seen) ==
    IF batch_start >= Len(pages) THEN seen
    ELSE LET batch_end == Min(batch_start + batch_size, Len(pages))
         IN  AllVisits(pages, batch_size, batch_start + batch_size,
                       seen \o [j \in 1..(batch_end - batch_start) |->
                                    batch_start + j])

\* pd.concat(tables_list, ignore_index=True)
RECURSIVE Concat(_, _)
Concat(tables_list, k) ==
    IF k > Len(tables_list) THEN <<>>
    ELSE tables_list[k] \o Concat(tables_list, k + 1)

\* the emptiness test never fires
NoTablesFound_Never(tables_list) == FALSE

\* "if not tables_list"
NoTablesFound(tables_list) == tables_list = <<>>

\* a batch size below 1 is taken as 1
extract_and_save_tables_Clamped(pdf, output_path, batch_size, fsv, fault) ==
    LET b == Max(1, batch_size)
        tables_list == AllBatches(pdf.pages, b, 0, <<>>)
        eng == {<<"extract_tables", 0>>}
    IN  [visited |-> AllVisits(pdf.pages, b, 0, <<>>)] @@
        IF NoTablesFound(tables_list)
        THEN WOut(FALSE, NoMsg, Failure(Msg("No tables found in the PDF", "")), fsv,
                  eng, {})
        ELSE LET w == WriteOut(Xlsx(Concat(tables_list, 1)), output_path, fsv, fault)
             IN  WOut(w.raised, w.exc, w.res, w.fs, eng \cup w.engine, w.fsops)

(* _extract_and_save_tables; range() raises on a step of 0 and is empty on *)
(* a negative step.                                                        *)
extract_and_save_tables(pdf, output_path, batch_size, fsv, fault) ==
    [visited |-> IF batch_size <= 0 THEN <<>>
                 ELSE AllVisits(pdf.pages, batch_size, 0, <<>>)] @@
    IF batch_size = 0
    THEN WOut(TRUE, ExcRange, NoResult, fsv, {}, {})
    ELSE
    LET tables_list == IF batch_size < 0 THEN <<>>
                       ELSE AllBatches(pdf.pages, batch_size, 0, <<>>)
        eng == {<<"extract_tables", 0>>}
    IN  IF NoTablesFound(tables_list)
        THEN WOut(FALSE, NoMsg, Failure(Msg("No tables found in the PDF", "")), fsv,
                  IF batch_size < 0 THEN {} ELSE eng, {})
        ELSE LET w == WriteOut(Xlsx(Concat(tables_list, 1)), output_path, fsv, fault)
             IN  WOut(w.raised, w.exc, w.res, w.fs, eng \cup w.engine, w.fsops)

(* pdfplumber.open(path) / pdfplumber.open(BytesIO(..)).  A stream is read *)
(* in full and its cursor put back before the engine sees the bytes.       *)
PlumberOpen(file, fsv, fault) ==
    LET c == DataOf(file, fsv)
        eng == {<<"pdfplumber.open", 1>>}
        ops == IF file.variant = "path" THEN {<<"open_r", file.path>>} ELSE {}
    IN  CASE file.variant = "other" -> ROut("unsupported", NoMsg, Absent, 0, {}, {})
          [] file.variant = "stream" /\ fault = "read" ->
               ROut("raised", ExcRead, c, 0, {}, {})
          [] file.variant = "path" /\ fault = "read" ->
               ROut("raised", ExcRead, c, 0, eng, ops)
          [] OTHER ->
               IF ~c.ok THEN ROut("raised", ExcParse, c, file.pos, eng, ops)
               ELSE IF c.key # NoKey THEN ROut("raised", ExcLocked, c, file.pos, eng, ops)
               ELSE ROut("ok", NoMsg, c, file.pos, eng, ops)

PDFToExcelConverter_convert(input_pdf, output_path, batch_size, fsv, fault) ==
    LET prefix == "An error occurred during PDF to Excel conversion: "
        v == validate_pdf(input_pdf, fsv, fault)
        sn == Sniffed(v, 1)
    IN  IF ~v.ok
        THEN Out(Failure(v.msg), fsv, {}, v.fsops, sn, <<v.pos>>, 0)
        ELSE
        LET r == PlumberOpen(input_pdf, fsv, fault)
            ops == v.fsops \cup r.fsops
        IN  IF r.status = "unsupported"
            THEN Out(Failure(Msg("Unsupported input type", "")), fsv, {}, ops, sn,
                     <<r.pos>>, 0)
            ELSE IF r.status = "raised"
            THEN Out(Caught(prefix, r.exc), fsv, r.engine, ops, sn, <<r.pos>>, 0)
            ELSE
            LET w == extract_and_save_tables(r.doc, output_path, batch_size, fsv, fault)
            IN  [visited |-> w.visited] @@
                IF w.raised
                THEN Out(Caught(prefix, w.exc), w.fs, r.engine \cup w.engine,
                         ops \cup w.fsops, sn, <<r.pos>>, 0)
                ELSE Out(w.res, w.fs, r.engine \cup w.engine, ops \cup w.fsops, sn,
                         <<r.pos>>, 0)

----------------------------------------------------------------------------
(* converter.py: PDFToWordConverter                                        *)

NoEnd == -1

\* the pages the conversion engine is asked for: start (0-based) to end
SelectPages(pages, start_page, end_page) ==
    SubSeq(pages, start_page + 1,
           IF end_page = NoEnd THEN Len(pages) ELSE Min(end_page + 1, Len(pages)))

\* "finally: try: os.remove(temp_pdf_path) except: pass; if delete_output: ..."
Cleanup(fsv, delete_output, fault) ==
    IF fault = "remove" THEN fsv
    ELSE IF delete_output
         THEN [fsv EXCEPT ![TmpPdf] = Absent, ![TmpDocx] = Absent]
         ELSE [fsv EXCEPT ![TmpPdf] = Absent]

PDFToWordConverter_convert(input_pdf, output_path, start_page, end_page, fsv, fault) ==
    LET prefix == "An error occurred during PDF to Word conversion: "
        v == validate_pdf(input_pdf, fsv, fault)
        sn == Sniffed(v, 1)
    IN  IF ~v.ok
        THEN Out(Failure(v.msg), fsv, {}, v.fsops, sn, <<v.pos>>, 0)
        ELSE IF fault = "mktemp"
        THEN Out(Caught(prefix, ExcTemp), fsv, {}, v.fsops \cup {<<"mktemp", TmpPdf>>},
                 sn, <<v.pos>>, 0)
        ELSE
        \* with tempfile.NamedTemporaryFile(delete=False, suffix=".pdf") as temp_pdf
        LET c == DataOf(input_pdf, fsv)
            fs1 == [fsv EXCEPT ![TmpPdf] = Trunc]
            ops1 == v.fsops \cup {<<"mktemp", TmpPdf>>}
                      \cup (IF input_pdf.variant = "path"
                            THEN {<<"open_r", input_pdf.path>>} ELSE {})
        IN  IF input_pdf.variant = "other"
            THEN Out(Failure(Msg("Unsupported input type", "")), fs1, {}, ops1, sn,
                     <<v.pos>>, 0)
            \* f.read() / input_pdf.read() raises inside the with block
            ELSE IF fault = "read" /\ input_pdf.variant \in {"path", "stream"}
            THEN Out(Caught(prefix, ExcRead), fs1, {}, ops1, sn, <<0>>, 0)
            ELSE
            LET fs2 == [fs1 EXCEPT ![TmpPdf] = c]
                delete_output == ~Truthy(output_path)
                temp_docx_path == IF Truthy(output_path) THEN output_path ELSE TmpDocx
            IN  IF delete_output /\ fault = "mkdocx"
                THEN Out(Caught(prefix, ExcTemp), fs2, {},
                         ops1 \cup {<<"mktemp", TmpDocx>>}, sn, <<v.pos>>, 0)
                ELSE
                LET fs3 == IF delete_output THEN [fs2 EXCEPT ![TmpDocx] = Trunc]
                           ELSE fs2
                    ops3 == IF delete_output THEN ops1 \cup {<<"mktemp", TmpDocx>>}
                            ELSE ops1
                    \* try: cv = Converter(temp_pdf_path); cv.convert(..); cv.close()
                    failed == fault = "convert" \/ ~c.ok \/ c.key # NoKey
                    eng == IF ~c.ok THEN {<<"Converter", 1>>}
                           ELSE {<<"Converter", 1>>, <<"convert", 1>>}
                    fs4 == IF failed THEN fs3
                           ELSE [fs3 EXCEPT ![temp_docx_path] =
                                     Docx(SelectPages(c.pages, start_page, end_page))]
                    ops4 == IF failed THEN ops3
                            ELSE ops3 \cup {<<"open_w", temp_docx_path>>}
                    res == IF failed THEN Caught(prefix, ExcConvert)
                           ELSE IF Truthy(output_path) THEN PathResult(output_path)
                           ELSE IF fault = "readback" THEN Caught(prefix, ExcRead)
                           ELSE BytesResult(fs4[TmpDocx])
                IN  Out(res, Cleanup(fs4, delete_output, fault), eng,
                        ops4 \cup {<<"remove", TmpPdf>>}
                             \cup (IF delete_output THEN {<<"remove", TmpDocx>>} ELSE {}),
                        sn, <<v.pos>>, 0)

----------------------------------------------------------------------------
(* cli.py: what the command line can carry, and the exit code.             *)

\* sys.exit(main()): no process has exited / the process exited with n
NoExit == <<>>
Exit(n) == <<n>>

\* "if result == args.output_pdf: return 0 / else: return 1"
ExitCode(res, output) == IF res.kind = "path" /\ res.path = output THEN 0 ELSE 1

----------------------------------------------------------------------------
(* The caller: one call per step.                                          *)

Call(op, inputs, out, pwd, level, algo, batch, first, last, fault) ==
    [op |-> op, inputs |-> inputs, out |-> out, pwd |-> pwd, level |-> level,
     algo |-> algo, batch |-> batch, first |-> first, last |-> last,
     fault |-> fault]

NoCall == Call("none", <<>>, NoPath, NoPwd, 0, DefaultAlgorithm, 0, 0, NoEnd, "none")

\* destinations: None, '', a fresh path, the path of an existing source
Outs == {NoPath, EmptyPath, OutPath, "a.pdf"}

Levels == -3..12

BatchSizes == {-1, 0, 1, 2, 3, 5}

StartPages == {0, 1}
EndPages == {NoEnd, 0}

\* inputs of merge
MergeSources ==
    {PathSrc("a.pdf"), BytesSrc(DocB), StreamSrc(DocC, FALSE, 7),
     PathSrc("notes.pdf"), StreamSrc(DocBad, FALSE, 7), BytesSrc(DocBig),
     OtherSrc}

RECURSIVE Lists(_, _)
Lists(S, n) ==
    IF n = 0 THEN {<<>>}
    ELSE LET shorter == Lists(S, n - 1)
         IN  shorter \cup {Append(l, x) : l \in {m \in shorter : Len(m) = n - 1},
                                          x \in S}

MergeLists == Lists(MergeSources, MaxInputs)

BaseFs ==
    [p \in Paths |->
        CASE p = "a.pdf"     -> DocA
          [] p = "b.pdf"     -> DocB
          [] p = "c.pdf"     -> DocC
          [] p = "max.pdf"   -> DocMax
          [] p = "big.pdf"   -> DocBig
          [] p = "enc.pdf"   -> DocEnc
          [] p = "bad.pdf"   -> DocBad
          [] p = "notes.pdf" -> DocText
          [] p = "bignotes.pdf" -> DocBigText
          [] p = "long.pdf"  -> DocLong
          [] OTHER           -> Absent]

Init ==
    /\ fs \in {BaseFs, [BaseFs EXCEPT ![OutPath] = DocOld]}
    /\ fs0 = fs
    /\ call = NoCall
    /\ result = NoResult
    /\ engine = {}
    /\ fsops = {}
    /\ sniffs = {}
    /\ cursor = <<>>
    /\ elevel = 0
    /\ prev = [call |-> NoCall, result |-> NoResult, fs0 |-> fs]
    /\ exitcode = NoExit
    /\ visited = <<>>

Idle == call.op = "none" /\ exitcode = NoExit

\* the call returns: what the caller can observe afterwards
Finish(c, o) ==
    /\ call' = c
    /\ result' = o.res
    /\ fs' = o.fs
    /\ fs0' = fs
    /\ engine' = o.engine
    /\ fsops' = o.fsops
    /\ sniffs' = o.sniffs
    /\ cursor' = o.cursor
    /\ elevel' = o.level
    /\ prev' = [call |-> call, result |-> result, fs0 |-> fs0]
    /\ visited' = IF "visited" \in DOMAIN o THEN o.visited ELSE <<>>

\* a call made through the library: no process exits
Return(c, o) == Finish(c, o) /\ exitcode' = NoExit

Validate ==
    /\ Idle
    /\ \E file \in Sources, fault \in {"none", "vread"} :
        LET v == validate_pdf(file, fs, fault)
        IN  Return(Call("validate", <<file>>, NoPath, NoPwd, 0, DefaultAlgorithm,
                        0, 0, NoEnd, fault),
                   Out(IF v.ok THEN ValidResult ELSE Failure(v.msg), fs, {},
                       v.fsops, Sniffed(v, 1), <<v.pos>>, 0))

Compress ==
    /\ Idle
    /\ \E file \in Sources, out \in Outs, level \in Levels,
          fault \in {"none", "vread", "read", "open", "write"} :
        Return(Call("compress", <<file>>, out, NoPwd, level, DefaultAlgorithm,
                    0, 0, NoEnd, fault),
               compress(file, out, level, fs, fault))

Merge ==
    /\ Idle
    /\ \E files \in MergeLists, out \in Outs,
          fault \in {"none", "vread", "read", "open", "write"} :
        Return(Call("merge", files, out, NoPwd, 0, DefaultAlgorithm, 0, 0, NoEnd,
                    fault),
               merge(files, out, fs, fault))

Encrypt ==
    /\ Idle
    /\ \E file \in Sources, out \in Outs, pwd \in Passwords, algo \in Algorithms,
          fault \in {"none", "vread", "read", "open", "write"} :
        Return(Call("encrypt", <<file>>, out, pwd, 0, algo, 0, 0, NoEnd, fault),
               encrypt(file, pwd, out, algo, fs, fault))

Decrypt ==
    /\ Idle
    /\ \E file \in Sources, out \in Outs, pwd \in Passwords,
          fault \in {"none", "vread", "read", "decrypt", "open", "write"} :
        Return(Call("decrypt", <<file>>, out, pwd, 0, DefaultAlgorithm, 0, 0,
                    NoEnd, fault),
               decrypt(file, pwd, out, fs, fault))

ToExcel ==
    /\ Idle
    /\ \E file \in Sources, out \in Outs, batch \in BatchSizes,
          fault \in {"none", "vread", "read", "open", "write"} :
        Return(Call("to-excel", <<file>>, out, NoPwd, 0, DefaultAlgorithm, batch,
                    0, NoEnd, fault),
               PDFToExcelConverter_convert(file, out, batch, fs, fault))

ToWord ==
    /\ Idle
    /\ \E file \in Sources, out \in Outs, first \in StartPages, last \in EndPages,
          fault \in {"none", "vread", "mktemp", "read", "mkdocx", "convert",
                     "readback", "remove"} :
        Return(Call("to-word", <<file>>, out, NoPwd, 0, DefaultAlgorithm, 0,
                    first, last, fault),
               PDFToWordConverter_convert(file, out, first, last, fs, fault))

(* The caller of a successful encrypt hands what it got back (the path it  *)
(* named, or the bytes, as bytes or wrapped in a stream) to decrypt.       *)
Handed(res) ==
    IF res.kind = "path" THEN {PathSrc(res.path)}
    ELSE {BytesSrc(res.data), StreamSrc(res.data, FALSE, 7)}

DecryptEncrypted ==
    /\ call.op = "encrypt"
    /\ prev.call.op = "none"
    /\ result.kind \in {"path", "bytes"}
    /\ \E file \in Handed(result), out \in Outs, pwd \in Passwords,
          fault \in {"none", "decrypt", "write"} :
        Return(Call("decrypt", <<file>>, out, pwd, 0, DefaultAlgorithm, 0, 0,
                    NoEnd, fault),
               decrypt(file, pwd, out, fs, fault))

(* cli.py: main().  The input is always a path string, the output a        *)
(* positional string (possibly empty), --level one of 1..10, --password a  *)
(* string.                                                                 *)
CliInputs == {s \in Sources : s.variant = "path"}
CliOuts == Outs \ {NoPath}
CliLevels == Levels \cap (1..10)
CliPasswords == Passwords \ {NoPwd}
CliFaults == {"none", "read", "write"}
CliMergeLists ==
    Lists({PathSrc("a.pdf"), PathSrc("b.pdf"), PathSrc("notes.pdf")}, MaxInputs)
        \ {<<>>}

\* one subcommand ran: the result is compared with the output argument
CliRun(c, o) == Finish(c, o) /\ exitcode' = Exit(ExitCode(o.res, c.out))

Main ==
    /\ Idle
    /\ \/ \E file \in CliInputs, out \in CliOuts, level \in CliLevels,
             fault \in CliFaults :
            CliRun(Call("compress", <<file>>, out, NoPwd, level, DefaultAlgorithm,
                        0, 0, NoEnd, fault),
                   compress(file, out, level, fs, fault))
       \/ \E file \in CliInputs, out \in CliOuts, batch \in BatchSizes,
             fault \in CliFaults :
            CliRun(Call("to-excel", <<file>>, out, NoPwd, 0, DefaultAlgorithm,
                        batch, 0, NoEnd, fault),
                   PDFToExcelConverter_convert(file, out, batch, fs, fault))
       \/ \E file \in CliInputs, out \in CliOuts, first \in StartPages,
             last \in EndPages, fault \in {"none", "read", "convert"} :
            CliRun(Call("to-word", <<file>>, out, NoPwd, 0, DefaultAlgorithm, 0,
                        first, last, fault),
                   PDFToWordConverter_convert(file, out, first, last, fs, fault))
       \/ \E files \in CliMergeLists, out \in CliOuts, fault \in CliFaults :
            CliRun(Call("merge", files, out, NoPwd, 0, DefaultAlgorithm, 0, 0,
                        NoEnd, fault),
                   merge(files, out, fs, fault))
       \/ \E file \in CliInputs, out \in CliOuts, pwd \in CliPasswords,
             algo \in Algorithms, fault \in CliFaults :
            CliRun(Call("encrypt", <<file>>, out, pwd, 0, algo, 0, 0, NoEnd,
                        fault),
                   encrypt(file, pwd, out, algo, fs, fault))
       \/ \E file \in CliInputs, out \in CliOuts, pwd \in CliPasswords,
             fault \in CliFaults :
            CliRun(Call("decrypt", <<file>>, out, pwd, 0, DefaultAlgorithm, 0, 0,
                        NoEnd, fault),
                   decrypt(file, pwd, out, fs, fault))
       \* no subcommand: "else: logger.error('No command specified'); return 1"
       \/ /\ exitcode' = Exit(1)
          /\ UNCHANGED <<fs, fs0, call, result, engine, fsops, sniffs, cursor,
                         elevel, prev, visited>>

Next ==
    \/ Validate
    \/ Compress
    \/ Merge
    \/ Encrypt
    \/ Decrypt
    \/ ToExcel
    \/ ToWord
    \/ DecryptEncrypted
    \/ Main

Spec == Init /\ [][Next]_vars

----------------------------------------------------------------------------
(* Vocabulary of the properties.                                           *)

Ops == {"compress", "merge", "encrypt", "decrypt", "to-excel", "to-word"}

InputIdx == 1..Len(call.inputs)

\* the content input i held when the call began
InputData(i) == DataOf(call.inputs[i], fs0)

Oversize(c) == c.size > MAX_FILE_SIZE

\* a PDF under the ceiling that the engine can parse
ValidPdf(c) == c.kind = "pdf" /\ c.ok /\ ~Oversize(c)

\* the validator gets to see how large the input is
SizeKnown(file) == file.variant \in {"path", "bytes"}
                     \/ (file.variant = "stream" /\ file.hasSize)

\* the content is protected by a password
Locked(c) == c.key # NoKey

Succeeded == result.kind \in {"path", "bytes"}

\* the document a successful call produced
ResultDoc == IF result.kind = "path" THEN fs[result.path] ELSE result.data

\* the call opened some file that is not one of its own temporaries for writing
WroteFile == \E p \in Paths \ {TmpPdf, TmpDocx} : <<"open_w", p>> \in fsops

\* the environment made no step of the call fail
NoFault == call.fault = "none"

----------------------------------------------------------------------------
(* C1.  As stated: an input larger than the 30 MiB ceiling makes every     *)
(* operation, for every input variant, return a Failure without the        *)
(* delegate engine being invoked.                                          *)
C1_OversizeAlwaysRejected ==
    call.op \in Ops =>
        \A i \in InputIdx :
            Oversize(InputData(i)) => result.kind = "failure" /\ engine = {}

(* C1, amended: the same, for the inputs whose size the validator sees: a  *)
(* path, a byte buffer, or a stream that exposes a size attribute.         *)
C1_OversizeRejectedWhenSizeKnown ==
    call.op \in Ops =>
        \A i \in InputIdx :
            (Oversize(InputData(i)) /\ SizeKnown(call.inputs[i]))
                => result.kind = "failure" /\ engine = {}

\* C1 witness: an oversize stream that reports its size is turned away
C1_Witness ==
    /\ call.op = "compress"
    /\ call.inputs = <<StreamSrc(DocBig, TRUE, 7)>>
    /\ result = Failure(SizeMsg)
    /\ engine = {}

----------------------------------------------------------------------------
(* C2.  When validate_pdf or an operation returns, with a success value or *)
(* with a Failure, every stream input's cursor is where it was when the    *)
(* call began.                                                             *)
C2_CursorRestored ==
    call.op # "none" =>
        \A i \in InputIdx :
            call.inputs[i].variant = "stream" => cursor[i] = call.inputs[i].pos

----------------------------------------------------------------------------
(* C3.  No operation raises to its caller: the call returns a path, a byte *)
(* buffer or a Failure, whatever step of it failed.                        *)
C3_NeverRaises ==
    call.op \in Ops => result.kind \in {"path", "bytes", "failure"}

\* C3 witness: a conversion that raised came back as a Failure
C3_Witness ==
    /\ call.op = "to-word"
    /\ call.fault = "convert"
    /\ ValidPdf(InputData(1))
    /\ result = Failure(Wrap("An error occurred during PDF to Word conversion: ",
                             0, ExcConvert))

----------------------------------------------------------------------------
(* C4.  A result is the destination path, with the file at that path       *)
(* written, when a destination was given and the call succeeded; a byte    *)
(* buffer, with no destination file written, when none was given and the   *)
(* call succeeded; and a Failure otherwise.                                *)
C4_ResultShapes ==
    call.op \in Ops =>
        \/ /\ result.kind = "path"
           /\ Truthy(call.out)
           /\ result.path = call.out
           /\ <<"open_w", call.out>> \in fsops
           /\ fs[call.out].kind \in {"pdf", "xlsx", "docx"}
        \/ /\ result.kind = "bytes"
           /\ ~Truthy(call.out)
           /\ result.data.kind \in {"pdf", "xlsx", "docx"}
           /\ ~WroteFile
           /\ \A p \in Paths \ {TmpPdf, TmpDocx} : fs[p] = fs0[p]
        \/ result.kind = "failure"

\* C4 witness: an encryption to a destination returns that destination
C4_Witness ==
    /\ call.op = "encrypt"
    /\ call.out = OutPath
    /\ result = PathResult(OutPath)
    /\ fs[OutPath] = Written(<<1, 2>>, "pw2")

----------------------------------------------------------------------------
(* C5.  A call that returns a Failure has not created or written the       *)
(* destination file.                                                       *)
C5_NoPartialOutput ==
    (call.op \in Ops /\ result.kind = "failure" /\ Truthy(call.out)) =>
        /\ <<"open_w", call.out>> \notin fsops
        /\ fs[call.out] = fs0[call.out]

----------------------------------------------------------------------------
(* C6.  Merge of zero or one input returns a Failure and touches nothing:  *)
(* no input is validated or opened, no destination is created.             *)
C6_MergeTooFew ==
    (call.op = "merge" /\ Len(call.inputs) < 2) =>
        /\ result.kind = "failure"
        /\ fsops = {}
        /\ sniffs = {}
        /\ engine = {}
        /\ fs = fs0
        /\ cursor = StartCursor(call.inputs)

\* C6 witness: one existing file and a destination
C6_Witness ==
    /\ call.op = "merge"
    /\ call.inputs = <<PathSrc("a.pdf")>>
    /\ call.out = OutPath
    /\ result = Failure(Msg("At least two PDF files are required for merging", ""))
    /\ fs[OutPath] = fs0[OutPath]

----------------------------------------------------------------------------
(* Merge: the inputs' documents and what merging a shorter list gives.     *)

Front(l) == SubSeq(l, 1, Len(l) - 1)

RECURSIVE PagesInOrder(_)
PagesInOrder(docs) ==
    IF docs = <<>> THEN <<>>
    ELSE PagesInOrder(Front(docs)) \o docs[Len(docs)].pages

InputDocs == [i \in InputIdx |-> InputData(i)]

\* what merging all inputs but the last, from the same files, gives
MergedFront == merge(Front(call.inputs), NoPath, fs0, "none").res

(* C7.  Merge concatenates its inputs' pages in input order, and           *)
(* merge([A, B, C]) is merge([A, B]) followed by the pages of C.           *)
C7_MergeInOrder ==
    (call.op = "merge" /\ Succeeded) =>
        /\ ResultDoc.pages = PagesInOrder(InputDocs)
        /\ Len(call.inputs) >= 3 =>
              /\ MergedFront.kind = "bytes"
              /\ ResultDoc.pages
                   = MergedFront.data.pages \o InputData(Len(call.inputs)).pages

\* C7 witness: three different documents, one of each variant
C7_Witness ==
    /\ call.op = "merge"
    /\ call.inputs = <<PathSrc("a.pdf"), BytesSrc(DocB), StreamSrc(DocC, FALSE, 7)>>
    /\ result.kind = "bytes"
    /\ result.data.pages = <<1, 2, 3, 4, 5>>

----------------------------------------------------------------------------
(* Encrypt followed by decrypt.                                            *)

\* the call before this one encrypted, and this one decrypts what it produced
RoundTrip == prev.call.op = "encrypt" /\ call.op = "decrypt"

\* the document D that was encrypted
Original == DataOf(prev.call.inputs[1], prev.fs0)

----------------------------------------------------------------------------
(* C9.  Decrypting an encrypted PDF with a password that is not its        *)
(* password returns the Failure "Incorrect password or failed to decrypt   *)
(* the PDF" and nothing else.                                              *)
C9_WrongPasswordMessage ==
    ( /\ call.op = "decrypt"
      /\ call.fault \in {"none", "decrypt"}
      /\ ValidPdf(InputData(1))
      /\ Locked(InputData(1))
      /\ HasPassword(call.pwd)
      /\ call.pwd # InputData(1).key )
    => result = Failure(Msg("Incorrect password or failed to decrypt the PDF", ""))

----------------------------------------------------------------------------
(* Decrypt of a document that was never encrypted.                         *)

NotEncryptedOutcome ==
    /\ result = Failure(Msg("The PDF is not encrypted", ""))
    /\ <<"decrypt", 1>> \notin engine
    /\ ~WroteFile
    /\ fs = fs0

\* a decrypt call on a valid, unencrypted PDF that is read without error
DecryptOfPlainPdf ==
    /\ call.op = "decrypt"
    /\ call.fault \notin {"vread", "read"}
    /\ ValidPdf(InputData(1))
    /\ ~Locked(InputData(1))

(* C10.  As stated: decrypting a valid PDF that is not encrypted returns   *)
(* the Failure "The PDF is not encrypted", asks the engine for no          *)
(* decryption and creates no output file.                                  *)
C10_NotEncryptedAnyPassword == DecryptOfPlainPdf => NotEncryptedOutcome

(* C10, amended: the same, when the password given is not empty (an empty  *)
(* or absent password is reported first, as a missing password).           *)
C10_NotEncrypted ==
    (DecryptOfPlainPdf /\ HasPassword(call.pwd)) => NotEncryptedOutcome

\* C10 witness: a.pdf, never encrypted, with a password and a destination
C10_Witness ==
    /\ call.op = "decrypt"
    /\ call.inputs = <<PathSrc("a.pdf")>>
    /\ call.pwd = "pw1"
    /\ call.out = OutPath
    /\ NotEncryptedOutcome

----------------------------------------------------------------------------
(* C11.  Encrypt and decrypt called with an empty or absent password       *)
(* return a Failure before the delegate engine has parsed the document,    *)
(* done any cryptographic work or written any output.                      *)
C11_PasswordRequired ==
    (call.op \in {"encrypt", "decrypt"} /\ call.pwd \in {NoPwd, ""}) =>
        /\ result.kind = "failure"
        /\ engine = {}
        /\ ~WroteFile
        /\ fs = fs0

\* C11 witness: a valid PDF, an empty password and a destination
C11_Witness ==
    /\ call.op = "encrypt"
    /\ call.inputs = <<PathSrc("a.pdf")>>
    /\ call.pwd = ""
    /\ call.out = OutPath
    /\ result = Failure(Msg("Password is required for encryption", ""))
    /\ engine = {}
    /\ fs[OutPath] = fs0[OutPath]

----------------------------------------------------------------------------
(* To-excel of a document without tables.                                  *)

\* no page of the document yields a table
NoTables(c) == \A j \in 1..Len(c.pages) : PageTables(c.pages[j]) = <<>>

\* a to-excel call on a document the extraction engine opens, without tables
ToExcelOfNoTables ==
    /\ call.op = "to-excel"
    /\ call.fault \notin {"vread", "read"}
    /\ ValidPdf(InputData(1))
    /\ ~Locked(InputData(1))
    /\ NoTables(InputData(1))

NoTablesOutcome ==
    /\ result = Failure(Msg("No tables found in the PDF", ""))
    /\ ~WroteFile
    /\ fs = fs0

(* C12.  As stated: to-excel on a document in which no page yields a table *)
(* returns the Failure "No tables found in the PDF" and creates no output  *)
(* file, for every destination.                                            *)
C12_NoTablesAnyBatchSize == ToExcelOfNoTables => NoTablesOutcome

(* C12, amended: the same, for every batch size other than zero (a batch   *)
(* size of zero fails in range() before any page is looked at, with the    *)
(* generic conversion message).                                            *)
C12_NoTables == (ToExcelOfNoTables /\ call.batch # 0) => NoTablesOutcome

\* C12 witness: b.pdf, whose single page has no table, with a destination
C12_Witness ==
    /\ call.op = "to-excel"
    /\ call.inputs = <<PathSrc("b.pdf")>>
    /\ call.batch = 2
    /\ call.out = OutPath
    /\ <<"extract_tables", 0>> \in engine
    /\ NoTablesOutcome

----------------------------------------------------------------------------
(* Inputs of an unsupported shape.                                         *)

\* some input is neither a path, nor a byte buffer, nor a readable stream
UnsupportedInput == \E i \in InputIdx : call.inputs[i].variant = "other"

\* the message is the operations' "Unsupported input type[ for PDF #k]"
SaysUnsupportedInputType ==
    \/ result.msg.text = "Unsupported input type"
    \/ result.msg.pre = "Unsupported input type for PDF #"

(* C13.  An input that is neither a path string, nor a byte buffer, nor a  *)
(* readable stream makes every operation return the Failure whose message  *)
(* is "Unsupported input type".                                            *)
C13_UnsupportedInputType ==
    (call.op \in Ops /\ UnsupportedInput /\ ~TooFew(call.inputs)) =>
        /\ result.kind = "failure"
        /\ SaysUnsupportedInputType

----------------------------------------------------------------------------
(* A file named .pdf that does not hold PDF content.                       *)

\* input i is a path to an existing file, under the ceiling, that is no PDF
FalseLabel(i) ==
    /\ call.inputs[i].variant = "path"
    /\ InputData(i).kind \notin {"absent", "pdf"}
    /\ ~Oversize(InputData(i))

\* the inputs before input i pass validation
EarlierValid(i) ==
    \A j \in 1..(i - 1) :
        validate_pdf(call.inputs[j], fs0, FaultAt(call.fault, j)).ok

\* a call whose validation gets to read input i
ReachesInput(i) ==
    /\ call.op \in Ops
    /\ ~(call.op = "merge" /\ TooFew(call.inputs))
    /\ FaultAt(call.fault, i) # "vread"
    /\ EarlierValid(i)

NotAPdf == Msg("File is not a valid PDF", "")

(* C14.  As stated: for a file whose name ends in .pdf and whose leading   *)
(* bytes are not PDF content, every operation returns a Failure whose      *)
(* message is "File is not a valid PDF", and the delegate engine is never  *)
(* given the file.                                                         *)
C14_NotAPdfVerbatim ==
    \A i \in InputIdx :
        (ReachesInput(i) /\ FalseLabel(i)) =>
            /\ result = Failure(NotAPdf)
            /\ engine = {}

(* C14, amended: every operation returns a Failure carrying the            *)
(* validator's message "File is not a valid PDF": as it is from compress,  *)
(* encrypt, decrypt, to-excel and to-word, and behind the prefix           *)
(* "Validation failed for PDF #k: " from merge; and no call that is handed *)
(* such a file invokes the delegate engine at all.                         *)
C14_NotAPdf ==
    \A i \in InputIdx :
        /\ (call.op \in Ops /\ FalseLabel(i)) =>
              /\ result.kind = "failure"
              /\ engine = {}
        /\ (ReachesInput(i) /\ FalseLabel(i)) =>
              /\ i \in sniffs
              /\ result = IF call.op = "merge"
                          THEN Failure(Wrap("Validation failed for PDF #", i, NotAPdf))
                          ELSE Failure(NotAPdf)

\* C14 witness: merge of a PDF and a text file named notes.pdf
C14_Witness ==
    /\ call.op = "merge"
    /\ call.inputs = <<PathSrc("a.pdf"), PathSrc("notes.pdf")>>
    /\ result = Failure(Wrap("Validation failed for PDF #", 2, NotAPdf))
    /\ sniffs = {1, 2}
    /\ engine = {}

----------------------------------------------------------------------------
(* C15.  Each CLI subcommand exits with 0 exactly when the operation it    *)
(* ran succeeded and with 1 exactly when it returned a Failure; without a  *)
(* subcommand the exit code is 1.                                          *)
C15_ExitCode ==
    exitcode # NoExit =>
        /\ call.op \in Ops => /\ exitcode = Exit(0) <=> Succeeded
                              /\ exitcode = Exit(1) <=> result.kind = "failure"
        /\ call.op = "none" => exitcode = Exit(1)

----------------------------------------------------------------------------
----------------------------------------------------------------------------
(* Merge: validation of all inputs before the first append.                *)

\* what validate_pdf says about input i of the call
Verdict(i) == validate_pdf(call.inputs[i], fs0, FaultAt(call.fault, i))

\* input k is the first input of the call that fails validation
FirstInvalid(k) == EarlierValid(k) /\ ~Verdict(k).ok

\* the validator's reads, and nothing else, were made on the given inputs
OnlyValidated(upto) ==
    fsops = UNION {Verdict(j).fsops : j \in 1..upto}

(* C17.  In merge every input is validated before the engine appends any:  *)
(* when input k is the first to fail validation, the result is the Failure *)
(* naming index k with that input's validation message, the engine has     *)
(* appended no input (inputs 1..k-1 included), the inputs after k have not *)
(* been looked at and nothing has been written.                            *)
C17_MergeValidatesFirst ==
    (call.op = "merge" /\ ~TooFew(call.inputs)) =>
        \A k \in InputIdx :
            FirstInvalid(k) =>
                /\ result = Failure(Wrap("Validation failed for PDF #", k,
                                         Verdict(k).msg))
                /\ engine = {}
                /\ OnlyValidated(k)
                /\ sniffs \subseteq 1..k
                /\ fs = fs0

\* C17 witness: two valid inputs followed by a text file
C17_Witness ==
    /\ call.op = "merge"
    /\ call.inputs = <<PathSrc("a.pdf"), BytesSrc(DocB), PathSrc("notes.pdf")>>
    /\ call.fault = "none"
    /\ result = Failure(Wrap("Validation failed for PDF #", 3, NotAPdf))
    /\ engine = {}
    /\ sniffs = {1, 2, 3}

----------------------------------------------------------------------------
(* C18.  When a to-word call has returned, no temporary file it created    *)
(* (the temporary PDF copy, the temporary DOCX when no destination was     *)
(* given) is left on disk, whichever way the call ended: success, a        *)
(* failure while the input is copied into the temporary PDF, a failure     *)
(* while the temporary DOCX is created, or an exception of the conversion  *)
(* engine.  (A removal that itself fails is left aside.)                   *)
C18_NoTempFilesLeft ==
    (call.op = "to-word" /\ call.fault # "remove") =>
        /\ fs[TmpPdf].kind = "absent"
        /\ fs[TmpDocx].kind = "absent"

----------------------------------------------------------------------------
(* C19.  For every input given as a path and every operation, the file at  *)
(* the source path holds after the call what it held before, whatever the  *)
(* destination: none, another path, or the source path itself.             *)
C19_SourceUntouched ==
    call.op \in Ops =>
        \A i \in InputIdx :
            call.inputs[i].variant = "path" =>
                fs[call.inputs[i].path] = fs0[call.inputs[i].path]

----------------------------------------------------------------------------
(* The compression level handed to the engine.                             *)

\* the mapping table: L clamped into 1..10, doubled up to 4, 9 from 5 on
DelegateLevel(L) ==
    LET c == IF L < 1 THEN 1 ELSE IF L > 10 THEN 10 ELSE L
    IN  CASE c = 1 -> 2
          [] c = 2 -> 4
          [] c = 3 -> 6
          [] c = 4 -> 8
          [] OTHER -> 9

\* the levels page.compress_content_streams was called with
LevelsPassed == {e[2] : e \in {x \in engine : x[1] = "compress_content_streams"}}

(* C20.  For every integer level L given to compress, the level passed to  *)
(* the engine is 2*L' for L' = L clamped into 1..10 when L' is 1..4, and 9 *)
(* when L' is 5..10: it is one of 2, 4, 6, 8, 9, and a smaller L never     *)
(* gets a larger engine level.                                             *)
C20_CompressionLevel ==
    call.op = "compress" =>
        /\ LevelsPassed \subseteq {DelegateLevel(call.level)}
        /\ LevelsPassed \subseteq {2, 4, 6, 8, 9}
        /\ Succeeded => LevelsPassed = {elevel}
        /\ \A M \in Levels :
              M <= call.level =>
                  \A l \in LevelsPassed : CompressLevel(M) <= l

\* C20 witness: level 5, the first of the levels that collapse to 9
C20_Witness ==
    /\ call.op = "compress"
    /\ call.level = 5
    /\ Succeeded
    /\ LevelsPassed = {9}

----------------------------------------------------------------------------
(* To-excel: what the page loops extract.                                  *)

\* the tables of pages 1..n, page after page, each page's in detection order
RECURSIVE TablesUpTo(_, _)
TablesUpTo(pages, n) ==
    IF n = 0 THEN <<>> ELSE TablesUpTo(pages, n - 1) \o PageTables(pages[n])

AllTables(c) == TablesUpTo(c.pages, Len(c.pages))

FramesOf(tables) == [k \in 1..Len(tables) |-> Frame(tables[k])]

\* a to-excel call with a batch size of at least 1 that got to the page loops
ToExcelBatched ==
    /\ call.op = "to-excel"
    /\ call.batch >= 1
    /\ <<"extract_tables", 0>> \in engine

\* the data rows of a sheet, without their headers
RowsOf(sheet) == [k \in 1..Len(sheet.rows) |-> sheet.rows[k].row]

(* C21.  To-excel batching does not change the output: for every batch     *)
(* size of at least 1 every page is visited exactly once, in page order,   *)
(* and the extracted tables are the same for any two batch sizes: all      *)
(* tables in ascending page order and, within a page, in detection order.  *)
C21_BatchingInvariant ==
    ToExcelBatched =>
        LET c == InputData(1)
        IN  /\ visited = [j \in 1..Len(c.pages) |-> j]
            /\ AllBatches(c.pages, call.batch, 0, <<>>) = FramesOf(AllTables(c))
            /\ \A b2 \in {b \in BatchSizes : b >= 1} :
                  AllBatches(c.pages, b2, 0, <<>>)
                      = AllBatches(c.pages, call.batch, 0, <<>>)
            /\ Succeeded => ResultDoc.rows = Concat(FramesOf(AllTables(c)), 1)

\* C21 witness: five pages in batches of two (2 + 2 + 1)
C21_Witness ==
    /\ call.op = "to-excel"
    /\ call.inputs = <<PathSrc("long.pdf")>>
    /\ call.batch = 2
    /\ visited = <<1, 2, 3, 4, 5>>
    /\ result.kind = "bytes"
    /\ RowsOf(result.data) = <<22, 12, 13, 14, 62, 41>>

----------------------------------------------------------------------------
(* To-excel: what each detected table puts into the combined sheet.        *)

\* the number of data rows a table stands for
DataRows(t) == IF Len(t) > 1 THEN Len(t) - 1 ELSE 1

\* the number of data rows of the first n tables
RECURSIVE RowsUpTo(_, _)
RowsUpTo(tables, n) ==
    IF n = 0 THEN 0 ELSE RowsUpTo(tables, n - 1) + DataRows(tables[n])

(* C22.  In to-excel every table detected on a page contributes to the     *)
(* combined output, in its place: a table of more than one row gives its   *)
(* rows after the first as data under the first row as header, a table of  *)
(* exactly one row gives that row as data without a header, and no table   *)
(* is dropped.                                                             *)
C22_EveryTableContributes ==
    (call.op = "to-excel" /\ Succeeded) =>
        LET tables == AllTables(InputData(1))
            rows == ResultDoc.rows
        IN  /\ tables # <<>>
            /\ Len(rows) = RowsUpTo(tables, Len(tables))
            /\ \A n \in 1..Len(tables) :
                  LET t == tables[n]
                      off == RowsUpTo(tables, n - 1)
                  IN  IF Len(t) > 1
                      THEN \A i \in 1..(Len(t) - 1) :
                              rows[off + i] = [header |-> t[1], row |-> t[i + 1]]
                      ELSE rows[off + 1] = [header |-> NoHeader, row |-> t[1]]

\* C22 witness: a.pdf, with a three-row, a one-row and a two-row table
C22_Witness ==
    /\ call.op = "to-excel"
    /\ call.inputs = <<PathSrc("a.pdf")>>
    /\ call.out = OutPath
    /\ result = PathResult(OutPath)
    /\ fs[OutPath] = Xlsx(<< [header |-> 11, row |-> 12],
                             [header |-> 11, row |-> 13],
                             [header |-> NoHeader, row |-> 14],
                             [header |-> 21, row |-> 22] >>)

----------------------------------------------------------------------------
(* C23.  To-excel called with a batch size of zero or below never succeeds *)
(* and never writes an output file: it returns a Failure for every         *)
(* document, documents with tables included, and no page is processed.     *)
C23_NonPositiveBatchFails ==
    (call.op = "to-excel" /\ call.batch <= 0) =>
        /\ result.kind = "failure"
        /\ visited = <<>>
        /\ <<"extract_tables", 0>> \notin engine
        /\ ~WroteFile
        /\ fs = fs0

\* C23 witness: a document with tables, a negative batch size, a destination
C23_Witness ==
    /\ call.op = "to-excel"
    /\ call.inputs = <<PathSrc("a.pdf")>>
    /\ call.batch = -1
    /\ call.out = OutPath
    /\ call.fault = "none"
    /\ result = Failure(Msg("No tables found in the PDF", ""))
    /\ visited = <<>>
    /\ fs[OutPath] = fs0[OutPath]

====
